---- MODULE Spec2Model ----
(***************************************************************************)
(* WikiWeave: the buffered-attribute wiki builder of src/wiki.py with the  *)
(* Characters and Settings sections of src/section_examples.               *)
(*                                                                         *)
(* The model follows one run of wiki.py's __main__: read_chunks() over the *)
(* docstore nodes (agent call with retries, process_response dispatching   *)
(* the returned function calls, update_sections), then the forced          *)
(* update_sections(force=True).  Python objects live in `heap`; a section's *)
(* `entities` dict is an insertion-ordered list of key/object-reference    *)
(* pairs, so that two keys can refer to one Entity instance.               *)
(***************************************************************************)
EXTENDS Integers, Sequences, FiniteSets, TLC

\* ---------------------------------------------------------------- bounds
\* Largest number of nodes the docstore holds.
MaxNodes == 5
\* Largest number of parts in one agent response.
MaxParts == 2
\* Largest number of response parts the agent emits over a whole run.
MaxCalls == 3
\* Largest configured use_n_prev_chunks explored by the configuration specs.
MaxKeep == 2

\* ------------------------------------------------------ program constants
\* wiki.py:170  max_retries = 10
max_retries == 10
\* wiki.py:155  self.docstore.nodes[3:7]
SliceStart == 3
SliceStop == 7
\* wiki.py:93   use_n_prev_chunks: int = 5
DefaultUseNPrevChunks == 5

None == "None"

\* ------------------------------------------------------------ input sets
\* A str whose characters matter (attribute data, file contents, file
\* names) is the sequence of its characters; a run of letters and digits
\* that is never taken apart is written as one character, so <<"t1">> is
\* a one-word text and <<" ", "t2", "\n", "t3", "\n">> a text of two lines
\* with a leading blank and a trailing newline.  "" is <<>>.
CharNames == {"Alice", "Redwitch"}
SettNames == {"Study"}
Summaries == {"s1", "s2"}
Texts == {<<"t1">>, <<" ", "t2", "\n", "t3", "\n">>}

\* ------------------------------------------------------------ attributes
\* CharacterAttributes.get_attributes / SettingAttributes.get_attributes:
\* the attribute names of an entity in dict order.
CharacterAttributes == <<"personality", "trivia", "aliases", "appearance">>
SettingAttributes == <<"description", "history", "geography", "culture">>

Range(s) == {s[i] : i \in DOMAIN s}

\* The update_every_n_insertions each attribute is constructed with.
update_every_n_insertions(attr) ==
    CASE attr = "personality" -> 3
      [] attr = "aliases"     -> 1
      [] attr = "trivia"      -> 3
      [] attr = "appearance"  -> 2
      [] attr = "description" -> 3
      [] attr = "history"     -> 1
      [] attr = "geography"   -> 1
      [] attr = "culture"     -> 1

\* The default each attribute is constructed with: [] for aliases, "" else
\* (the empty list and the empty str are both the empty sequence).
IsListValued(attr) == attr = "aliases"
default(attr) == IF IsListValued(attr) THEN <<>> ELSE <<>>

\* Attribute.__post_init__: empty buffer, data = default.
Attribute(attr) == [buffer |-> <<>>, data |-> default(attr)]

\* Character(name=name) / Setting(name=name): a fresh entity whose
\* attributes dict is a per-instance copy of the class default.
Character(name) ==
    [name |-> name,
     attributes |-> [a \in Range(CharacterAttributes) |-> Attribute(a)]]
Setting(name) ==
    [name |-> name,
     attributes |-> [a \in Range(SettingAttributes) |-> Attribute(a)]]

\* ------------------------------------------------------------------ state
VARIABLES
    entities,           \* section key -> ordered list of [key, ent]: Section.entities
    heap,               \* the Entity objects created so far; ent is an index
    running_summary,    \* Wiki.running_summary
    use_n_prev_chunks,  \* Wiki.use_n_prev_chunks
    num_nodes,          \* len(self.docstore.nodes)
    repertoire,         \* the response parts the agent backend emits in this run
    budget,             \* response parts the agent may still emit
    pc,                 \* position of the run
    curr,               \* read_chunks: position of curr_node in the sliced node list
    tries,              \* read_chunks local
    response,           \* read_chunks local: None or the response object received
    nparts,             \* process_response: len(response.parts)
    part,               \* process_response: index of the next part
    upos,               \* update_sections: index of the next visit
    force,              \* update_sections argument
    last,               \* the operation performed by the last step
    attempts,           \* add_model.generate_content calls made for the current chunk
    processed,          \* the nodes read_chunks has taken up, in order
    chunk_snap,         \* the wiki when read_chunks took up the current node
    snap,               \* the wiki when process_response started
    shadow,             \* snap after only the calls of the response that returned
    shadow_clean,       \* none of those calls raised when dispatched on shadow
    dispatched,         \* parts of the response the loop body has run for
    n_raised,           \* calls of the response that raised
    before,             \* the wiki just before the step that `last` describes
    pass_snap,          \* heap when the current update pass started
    pass_log,           \* update_data invocations of the current pass
    summaries,          \* every summary passed to generate_chunk_summary, in order
    tally,              \* responses received, update passes started by read_chunks
    disk                \* the root directory: section directories and .md files

wiki_vars == <<entities, heap, running_summary>>
config_vars == <<use_n_prev_chunks, num_nodes, repertoire>>
loop_vars == <<curr, tries, response, attempts, processed, chunk_snap>>
dispatch_vars == <<nparts, part, snap, shadow, shadow_clean, dispatched, n_raised,
                   before>>
pass_vars == <<upos, force, pass_snap, pass_log>>

vars == <<wiki_vars, config_vars, loop_vars, dispatch_vars, pass_vars,
          budget, pc, last, summaries, tally, disk>>

\* The mutable part of the Wiki object, as one value.
W == [entities |-> entities, heap |-> heap, running_summary |-> running_summary]

\* ------------------------------------------------------- python helpers
\* `key in d` for an insertion-ordered dict held as a list of [key, ent].
Has(d, key) == \E i \in DOMAIN d : d[i].key = key

\* d.get(key): the object reference, or 0 for None.
Get(d, key) == IF Has(d, key) THEN d[CHOOSE i \in DOMAIN d : d[i].key = key].ent ELSE 0

\* d[key] = ent for a key that is not in d: appended in insertion order.
Put(d, key, ent) == Append(d, [key |-> key, ent |-> ent])

\* lst[start:] with Python's clamping of negative and oversized indices.
PySliceFrom(lst, start) ==
    LET n == Len(lst)
        b == IF start < 0 THEN (IF n + start < 0 THEN 0 ELSE n + start)
                          ELSE (IF start > n THEN n ELSE start)
    IN  SubSeq(lst, b + 1, n)

\* lst[start:stop] for non-negative start and stop.
PySlice(lst, start, stop) ==
    LET n == Len(lst)
        b == IF start > n THEN n ELSE start
        e == IF stop > n THEN n ELSE stop
    IN  SubSeq(lst, b + 1, e)

\* A call that returned, and a call that raised `exc` leaving the wiki as w.
Returned(w) == [w |-> w, raised |-> ""]
Raised(w, exc) == [w |-> w, raised |-> exc]

\* ---------------------------------------------------------- Attribute
\* Mutant of add_to_buffer: an item the buffer already holds is dropped.
add_to_buffer_dedup(w, ent, attr, content) ==
    IF content \in Range(w.heap[ent].attributes[attr].buffer) THEN w
    ELSE [w EXCEPT !.heap[ent].attributes[attr].buffer = Append(@, content)]

\* Attribute.add_to_buffer (and the subclasses' overrides, which forward
\* to it): self.buffer.append(content).
add_to_buffer(w, ent, attr, content) ==
    [w EXCEPT !.heap[ent].attributes[attr].buffer = Append(@, content)]

\* ---------------------------------------------------------- Characters
\* Mutant of add_character: the name is bound to a fresh Character even
\* when it is already a key.
add_character_replace(w, name) ==
    LET d == w.entities["Characters"]
        fresh == Len(w.heap) + 1
    IN  Returned([w EXCEPT
            !.heap = Append(@, Character(name)),
            !.entities["Characters"] =
                IF Has(d, name)
                THEN [i \in DOMAIN d |->
                        IF d[i].key = name THEN [key |-> name, ent |-> fresh] ELSE d[i]]
                ELSE Put(d, name, fresh)])

\* Mutant of add_character: the new Character gets the attributes that an
\* earlier Character holds, not attributes of its own.
add_character_shared_attributes(w, name) ==
    LET earlier == {e \in DOMAIN w.heap : "personality" \in DOMAIN w.heap[e].attributes}
        fresh == IF earlier = {} THEN Character(name)
                 ELSE [Character(name) EXCEPT
                         !.attributes = w.heap[CHOOSE e \in earlier : TRUE].attributes]
    IN  IF ~Has(w.entities["Characters"], name)
        THEN Returned([w EXCEPT
                !.heap = Append(@, fresh),
                !.entities["Characters"] = Put(@, name, Len(w.heap) + 1)])
        ELSE Returned(w)

\* Characters.add_character: if name not in self.entities:
\* self.entities[name] = Character(name=name).
add_character(w, name) ==
    IF ~Has(w.entities["Characters"], name)
    THEN Returned([w EXCEPT
            !.heap = Append(@, Character(name)),
            !.entities["Characters"] = Put(@, name, Len(w.heap) + 1)])
    ELSE Returned(w)

add_to_character_personality(w, name, content) ==
    LET character == Get(w.entities["Characters"], name)
    IN  IF character = 0
        THEN Raised(w, "ValueError: does not exist")
        ELSE Returned(add_to_buffer(w, character, "personality", content))

\* Mutant of add_to_character_trivia: the item goes to the personality buffer.
add_to_character_trivia_as_personality(w, name, content) ==
    LET character == Get(w.entities["Characters"], name)
    IN  IF character = 0
        THEN Raised(w, "ValueError: does not exist")
        ELSE Returned(add_to_buffer(w, character, "personality", content))

add_to_character_trivia(w, name, content) ==
    LET character == Get(w.entities["Characters"], name)
    IN  IF character = 0
        THEN Raised(w, "ValueError: does not exist")
        ELSE Returned(add_to_buffer(w, character, "trivia", content))

\* Mutant of add_to_character_aliases: the alias key gets a copy of the
\* entity instead of the entity itself.
add_to_character_aliases_copy(w, name, alias) ==
    LET character == Get(w.entities["Characters"], name)
    IN  IF character = 0
        THEN Raised(w, "ValueError: does not exist")
        ELSE LET w1 == add_to_buffer(w, character, "aliases", alias)
             IN  IF ~Has(w1.entities["Characters"], alias)
                 THEN Returned([w1 EXCEPT
                         !.heap = Append(@, w1.heap[character]),
                         !.entities["Characters"] = Put(@, alias, Len(w1.heap) + 1)])
                 ELSE Returned(w1)

\* Mutant of add_to_character_aliases: the alias key is bound to the
\* entity also when it is a key already.
add_to_character_aliases_rebind(w, name, alias) ==
    LET character == Get(w.entities["Characters"], name)
    IN  IF character = 0
        THEN Raised(w, "ValueError: does not exist")
        ELSE LET w1 == add_to_buffer(w, character, "aliases", alias)
                 d == w1.entities["Characters"]
             IN  IF ~Has(d, alias)
                 THEN Returned([w1 EXCEPT
                         !.entities["Characters"] = Put(@, alias, character)])
                 ELSE Returned([w1 EXCEPT
                         !.entities["Characters"] =
                             [i \in DOMAIN d |->
                                 IF d[i].key = alias
                                 THEN [key |-> alias, ent |-> character] ELSE d[i]]])

add_to_character_aliases(w, name, alias) ==
    LET character == Get(w.entities["Characters"], name)
    IN  IF character = 0
        THEN Raised(w, "ValueError: does not exist")
        ELSE LET w1 == add_to_buffer(w, character, "aliases", alias)
             IN  IF ~Has(w1.entities["Characters"], alias)
                 THEN Returned([w1 EXCEPT
                         !.entities["Characters"] = Put(@, alias, character)])
                 ELSE Returned(w1)

\* Mutant of add_to_character_appearance: the item is written to data.
add_to_character_appearance_as_data(w, name, content) ==
    LET character == Get(w.entities["Characters"], name)
    IN  IF character = 0
        THEN Raised(w, "ValueError: does not exist")
        ELSE Returned([w EXCEPT
                !.heap[character].attributes["appearance"].data = <<content>>])

add_to_character_appearance(w, name, content) ==
    LET character == Get(w.entities["Characters"], name)
    IN  IF character = 0
        THEN Raised(w, "ValueError: does not exist")
        ELSE Returned(add_to_buffer(w, character, "appearance", content))

\* ------------------------------------------------------------ Settings
add_setting(w, name) ==
    IF ~Has(w.entities["Settings"], name)
    THEN Returned([w EXCEPT
            !.heap = Append(@, Setting(name)),
            !.entities["Settings"] = Put(@, name, Len(w.heap) + 1)])
    ELSE Returned(w)

add_to_setting_description(w, name, content) ==
    LET setting == Get(w.entities["Settings"], name)
    IN  IF setting = 0
        THEN Raised(w, "ValueError: does not exist")
        ELSE Returned(add_to_buffer(w, setting, "description", content))

add_to_setting_geography(w, name, content) ==
    LET setting == Get(w.entities["Settings"], name)
    IN  IF setting = 0
        THEN Raised(w, "ValueError: does not exist")
        ELSE Returned(add_to_buffer(w, setting, "geography", content))

add_to_setting_history(w, name, content) ==
    LET setting == Get(w.entities["Settings"], name)
    IN  IF setting = 0
        THEN Raised(w, "ValueError: does not exist")
        ELSE Returned(add_to_buffer(w, setting, "history", content))

\* Mutant of add_to_setting_culture: a missing setting is created on the fly.
add_to_setting_culture_autocreate(w, name, content) ==
    LET w1 == IF Has(w.entities["Settings"], name) THEN w
              ELSE [w EXCEPT !.heap = Append(@, Setting(name)),
                             !.entities["Settings"] = Put(@, name, Len(w.heap) + 1)]
    IN  Returned(add_to_buffer(w1, Get(w1.entities["Settings"], name), "culture", content))

add_to_setting_culture(w, name, content) ==
    LET setting == Get(w.entities["Settings"], name)
    IN  IF setting = 0
        THEN Raised(w, "ValueError: does not exist")
        ELSE Returned(add_to_buffer(w, setting, "culture", content))

\* ----------------------------------------------------------------- Wiki
\* Wiki.generate_chunk_summary: append, then running_summary[-n:].
generate_chunk_summary(w, n, summary) ==
    Returned([w EXCEPT
        !.running_summary = PySliceFrom(Append(@, summary), 0 - n)])

\* The keys of Wiki.functions: every section's section_functions plus
\* generate_chunk_summary.
FunctionNames ==
    {"add_character", "add_to_character_personality", "add_to_character_aliases",
     "add_to_character_appearance", "add_to_character_trivia",
     "add_setting", "add_to_setting_description", "add_to_setting_geography",
     "add_to_setting_history", "add_to_setting_culture",
     "generate_chunk_summary"}

\* The parameter names of each registered function.
Parameters(fname) ==
    CASE fname \in {"add_character", "add_setting"} -> {"name"}
      [] fname = "add_to_character_aliases" -> {"name", "alias"}
      [] fname = "generate_chunk_summary" -> {"summary"}
      [] OTHER -> {"name", "content"}

\* Wiki.call_function: fn = self.functions[name] raises KeyError for an
\* unregistered name; fn(**kwargs) raises TypeError when the keywords are
\* not exactly the parameters; otherwise the tool runs.
call_function(w, n, fc) ==
    IF fc.name \notin FunctionNames THEN Raised(w, "KeyError")
    ELSE IF DOMAIN fc.args # Parameters(fc.name) THEN Raised(w, "TypeError")
    ELSE CASE fc.name = "add_character" -> add_character(w, fc.args.name)
           [] fc.name = "add_to_character_personality" ->
                add_to_character_personality(w, fc.args.name, fc.args.content)
           [] fc.name = "add_to_character_trivia" ->
                add_to_character_trivia(w, fc.args.name, fc.args.content)
           [] fc.name = "add_to_character_aliases" ->
                add_to_character_aliases(w, fc.args.name, fc.args.alias)
           [] fc.name = "add_to_character_appearance" ->
                add_to_character_appearance(w, fc.args.name, fc.args.content)
           [] fc.name = "add_setting" -> add_setting(w, fc.args.name)
           [] fc.name = "add_to_setting_description" ->
                add_to_setting_description(w, fc.args.name, fc.args.content)
           [] fc.name = "add_to_setting_geography" ->
                add_to_setting_geography(w, fc.args.name, fc.args.content)
           [] fc.name = "add_to_setting_history" ->
                add_to_setting_history(w, fc.args.name, fc.args.content)
           [] fc.name = "add_to_setting_culture" ->
                add_to_setting_culture(w, fc.args.name, fc.args.content)
           [] fc.name = "generate_chunk_summary" ->
                generate_chunk_summary(w, n, fc.args.summary)

\* ------------------------------------------------------- update_data
\* What update_model.generate_content does for one synthesis call: it
\* returns a response whose .text reads as one of Texts, returns a response
\* whose .text cannot be read, or raises.
SynthesisOutcomes ==
    {[kind |-> "text", text |-> t] : t \in Texts}
        \cup {[kind |-> "no_text", text |-> <<>>], [kind |-> "raises", text |-> <<>>]}
NoModel == [kind |-> "no_model", text |-> <<>>]

\* Mutant of Prompt: new_data holds no more items than the threshold.
Prompt_up_to_threshold(section, key, attr, a) ==
    [section_name |-> section, section_entity_name |-> key,
     attribute_name |-> attr, existing_data |-> a.data,
     new_data |-> IF Len(a.buffer) <= update_every_n_insertions(attr)
                  THEN a.buffer
                  ELSE SubSeq(a.buffer, 1, update_every_n_insertions(attr))]

\* UPDATE_FUNCTION_PROMPT_TEMPLATE.format(...): the parts of the prompt
\* that vary, new_data being the buffer items joined in buffer order.
Prompt(section, key, attr, a) ==
    [section_name |-> section, section_entity_name |-> key,
     attribute_name |-> attr, existing_data |-> a.data, new_data |-> a.buffer]

\* Mutant of Attribute_update_data: the buffer is kept when the response's
\* text cannot be read.
Attribute_update_data_keep_unread(w, ent, attr, with_model, outcome) ==
    IF with_model /\ outcome.kind = "raises"
    THEN Raised(w, "generate_content")
    ELSE IF with_model /\ outcome.kind = "no_text"
    THEN Returned(w)
    ELSE LET w1 == IF with_model /\ outcome.kind = "text"
                   THEN [w EXCEPT !.heap[ent].attributes[attr].data = outcome.text]
                   ELSE w
         IN  Returned([w1 EXCEPT !.heap[ent].attributes[attr].buffer = <<>>])

\* Attribute.update_data.  The generate_content call stands before the
\* try block, so its exception leaves the method; only reading
\* response.text is guarded.  self.buffer = [] follows in every other case.
Attribute_update_data(w, ent, attr, with_model, outcome) ==
    IF with_model /\ outcome.kind = "raises"
    THEN Raised(w, "generate_content")
    ELSE LET w1 == IF with_model /\ outcome.kind = "text"
                   THEN [w EXCEPT !.heap[ent].attributes[attr].data = outcome.text]
                   ELSE w
         IN  Returned([w1 EXCEPT !.heap[ent].attributes[attr].buffer = <<>>])

\* Personality/Trivia/Appearance/Description/Geography/History/Culture
\* .update_data: build the prompt, then super().update_data(prompt, model).
Synthesized_update_data(w, ent, attr, outcome) ==
    Attribute_update_data(w, ent, attr, TRUE, outcome)

\* Mutant of MergeAliases: every buffer item is appended, known or not.
MergeAliases_append_all(data, buffer) == data \o buffer

\* The loop of Aliases.update_data: for alias in buffer: if alias not in
\* data: data.append(alias).
RECURSIVE MergeAliases(_, _)
MergeAliases(data, buffer) ==
    IF buffer = <<>> THEN data
    ELSE MergeAliases(
            IF Head(buffer) \in Range(data) THEN data ELSE Append(data, Head(buffer)),
            Tail(buffer))

\* Mutant of Aliases_update_data: data is rebuilt from the buffer alone.
Aliases_update_data_overwrite(w, ent, attr) ==
    LET a == w.heap[ent].attributes[attr]
        w1 == [w EXCEPT !.heap[ent].attributes[attr].data = MergeAliases(<<>>, a.buffer)]
    IN  Attribute_update_data(w1, ent, attr, FALSE, NoModel)

\* Aliases.update_data: merge, then super().update_data() without model.
Aliases_update_data(w, ent, attr) ==
    LET a == w.heap[ent].attributes[attr]
        w1 == [w EXCEPT !.heap[ent].attributes[attr].data = MergeAliases(a.data, a.buffer)]
    IN  Attribute_update_data(w1, ent, attr, FALSE, NoModel)

\* What an update_data reads of the buffer: the new_data of the prompt it
\* builds or, for Aliases, the items its merge loop iterates over.
update_input(section, key, attr, a) ==
    IF IsListValued(attr) THEN a.buffer ELSE Prompt(section, key, attr, a).new_data

\* Mutant of generate_content_calls: an unreadable response is asked for
\* again.
generate_content_calls_retry(attr, outcome) ==
    IF IsListValued(attr) THEN 0 ELSE IF outcome.kind = "no_text" THEN 2 ELSE 1

\* The update_model.generate_content calls of one update_data: the single
\* call of Attribute.update_data when prompt and model are given (there is
\* no loop around it), none for Aliases.
generate_content_calls(attr, outcome) ==
    IF IsListValued(attr) THEN 0 ELSE 1

\* attr.update_data(...) as update_sections calls it: dispatch on the class.
update_data(w, ent, attr, outcome) ==
    IF IsListValued(attr)
    THEN Aliases_update_data(w, ent, attr)
    ELSE Synthesized_update_data(w, ent, attr, outcome)

\* ------------------------------------------------------------ str
\* The characters str.strip() removes, among those of the model's texts.
Whitespace == {" ", "\n"}

\* s.lstrip(chars): drop leading characters while they are in chars.
LStrip(s, chars) ==
    LET keep == {i \in DOMAIN s : s[i] \notin chars}
    IN  IF keep = {} THEN <<>>
        ELSE SubSeq(s, CHOOSE i \in keep : \A j \in keep : i <= j, Len(s))

\* s.rstrip(chars)
RStrip(s, chars) ==
    LET keep == {i \in DOMAIN s : s[i] \notin chars}
    IN  IF keep = {} THEN <<>>
        ELSE SubSeq(s, 1, CHOOSE i \in keep : \A j \in keep : i >= j)

\* s.strip()
Strip(s) == RStrip(LStrip(s, Whitespace), Whitespace)

\* s.startswith(prefix)
StartsWith(s, prefix) ==
    /\ Len(s) >= Len(prefix)
    /\ SubSeq(s, 1, Len(prefix)) = prefix

\* s.splitlines(): the lines of s without their "\n"; a final "\n" opens
\* no further line.
RECURSIVE SplitLines(_)
SplitLines(s) ==
    IF s = <<>> THEN <<>>
    ELSE LET breaks == {i \in DOMAIN s : s[i] = "\n"}
         IN  IF breaks = {} THEN <<s>>
             ELSE LET b == CHOOSE i \in breaks : \A j \in breaks : i <= j
                  IN  <<SubSeq(s, 1, b - 1)>> \o SplitLines(SubSeq(s, b + 1, Len(s)))

\* "\n".join(lines)
RECURSIVE JoinLines(_)
JoinLines(lines) ==
    IF lines = <<>> THEN <<>>
    ELSE IF Len(lines) = 1 THEN lines[1]
    ELSE lines[1] \o <<"\n">> \o JoinLines(Tail(lines))

\* The characters of the model's texts outside [a-zA-Z0-9_\- ].
UnsafeCharacters == {"!", "\n"}

\* Mutant of sanitize_filename: without the strip().
sanitize_filename_no_strip(name) ==
    LET kept == SelectSeq(name, LAMBDA c : c \notin UnsafeCharacters)
    IN  [i \in DOMAIN kept |-> IF kept[i] = " " THEN "_" ELSE kept[i]]

\* sanitize_filename: re.sub(r"[^a-zA-Z0-9_\- ]", "", name).strip()
\* .replace(" ", "_")
sanitize_filename(name) ==
    LET kept == Strip(SelectSeq(name, LAMBDA c : c \notin UnsafeCharacters))
    IN  [i \in DOMAIN kept |-> IF kept[i] = " " THEN "_" ELSE kept[i]]

\* ------------------------------------------------------------ markdown
\* Aliases.to_markdown: "\n".join(f"- {item}" for item in self.data)
Aliases_to_markdown(data) ==
    JoinLines([i \in DOMAIN data |-> <<"-", " ">> \o data[i]])

\* Aliases.from_markdown: the lines of content.strip() that start with
\* "- ", each after lstrip("- ") and strip().
Aliases_from_markdown(content) ==
    LET lines == SplitLines(Strip(content))
        items == SelectSeq(lines, LAMBDA line : StartsWith(line, <<"-", " ">>))
    IN  [i \in DOMAIN items |-> Strip(LStrip(items[i], {"-", " "}))]

\* attr.to_markdown(): the str-valued attributes return self.data.
to_markdown(attr, data) ==
    IF IsListValued(attr) THEN Aliases_to_markdown(data) ELSE data

\* Mutant of from_markdown: a str-valued attribute keeps the first line.
from_markdown_first_line(attr, content) ==
    IF IsListValued(attr) THEN Aliases_from_markdown(content)
    ELSE IF SplitLines(Strip(content)) = <<>> THEN <<>>
    ELSE Head(SplitLines(Strip(content)))

\* attr.from_markdown(content): the str-valued attributes keep
\* content.strip().
from_markdown(attr, content) ==
    IF IsListValued(attr) THEN Aliases_from_markdown(content) ELSE Strip(content)

\* ---------------------------------------------------- update_sections
\* main's sections dict, in insertion order.
SectionOrder == <<"Characters", "Settings">>
AttributeOrder(section) ==
    IF section = "Characters" THEN CharacterAttributes ELSE SettingAttributes

\* The (section, key, attribute) triples of update_sections' nested loops
\* over one section, in iteration order.
SectionVisits(ents, section) ==
    LET d == ents[section]
        attrs == AttributeOrder(section)
        n == Len(attrs)
    IN  [k \in 1..(Len(d) * n) |->
            [section |-> section,
             key |-> d[((k - 1) \div n) + 1].key,
             ent |-> d[((k - 1) \div n) + 1].ent,
             attr |-> attrs[((k - 1) % n) + 1]]]

\* All visits of one update_sections pass, in order.
Visits(ents) ==
    SectionVisits(ents, SectionOrder[1]) \o SectionVisits(ents, SectionOrder[2])

\* Mutant of update_due: strict comparison.
update_due_strict(attr, buffer) == update_every_n_insertions(attr) < Len(buffer)

\* update_due = attr.update_every_n_insertions <= len(attr.buffer)
update_due(attr, buffer) == update_every_n_insertions(attr) <= Len(buffer)

\* Mutant of must_update: a forced pass updates whatever the buffer holds.
must_update_whenever_forced(attr, buffer, forced) ==
    update_due(attr, buffer) \/ forced

\* if update_due or (force and len(attr.buffer)):
must_update(attr, buffer, forced) ==
    update_due(attr, buffer) \/ (forced /\ Len(buffer) # 0)

\* Wiki.update_sections(force) as a whole, for a synthesis backend that is
\* a function of its prompt and the (section, key, attribute) triples
\* visited in the order `visits`: the wiki when the pass returns or, when
\* an update_data raises, when the exception leaves the pass.
RECURSIVE update_sections_in(_, _, _, _)
update_sections_in(w, visits, forced, backend) ==
    IF visits = <<>> THEN w
    ELSE LET v == Head(visits)
             a == w.heap[v.ent].attributes[v.attr]
         IN  IF must_update(v.attr, a.buffer, forced)
             THEN LET outcome == IF IsListValued(v.attr) THEN NoModel
                                 ELSE backend[Prompt(v.section, v.key, v.attr, a)]
                      r == update_data(w, v.ent, v.attr, outcome)
                  IN  IF r.raised # "" THEN r.w
                      ELSE update_sections_in(r.w, Tail(visits), forced, backend)
             ELSE update_sections_in(w, Tail(visits), forced, backend)

\* ------------------------------------------------- save_wiki, load_wiki
\* The root directory: the section directories under sections/ (each with
\* its entities/ directory) and the .md files, a file being named by its
\* section directory, entity directory and attribute file name.
EmptyDisk == [sections |-> {}, files |-> <<>>]

FilePath(section, entity_dir, attr_fname) ==
    [section |-> section, entity |-> entity_dir, attr |-> attr_fname]

\* Wiki.save_wiki: for every section, entity key and attribute, in dict
\* order, write attr.to_markdown() to
\* sections/<section>/entities/<sanitized key>/<sanitized attr>.md, unless
\* the text is empty; a later write to the same file replaces the earlier.
save_wiki(w, d) ==
    LET visits == Visits(w.entities)
        text(i) == to_markdown(visits[i].attr,
                       w.heap[visits[i].ent].attributes[visits[i].attr].data)
        path(i) == FilePath(visits[i].section, sanitize_filename(visits[i].key),
                            sanitize_filename(<<visits[i].attr>>))
        written == {i \in DOMAIN visits : text(i) # <<>>}
        paths == {path(i) : i \in written}
        last_write(q) == CHOOSE i \in written :
                            /\ path(i) = q
                            /\ \A j \in written : path(j) = q => j <= i
    IN  [sections |-> d.sections \cup DOMAIN w.entities,
         files |-> [q \in (DOMAIN d.files) \cup paths |->
                      IF q \in paths THEN text(last_write(q)) ELSE d.files[q]]]

\* section_name.lower() for the section directory names.
lower(section) ==
    CASE section = "Characters" -> "characters"
      [] section = "Settings" -> "settings"

\* The orders in which os.listdir may return the members of S.
ListingOrders(S) ==
    {f \in [1..Cardinality(S) -> S] : \A i, j \in DOMAIN f : f[i] = f[j] => i = j}

\* The entity directories load_wiki walks: those of the section
\* directories whose lowered name is "characters" (the others are skipped).
LoadableDirs(d) ==
    {[section |-> q.section, entity |-> q.entity] :
        q \in {f \in DOMAIN d.files : lower(f.section) = "characters"}}

\* Mutant of load_entity: an entity directory that lacks a file is not read
\* at all.
load_entity_all_or_nothing(d, section, entity_name) ==
    LET fresh == Character(entity_name)
        complete == \A a \in DOMAIN fresh.attributes :
                        FilePath(section, entity_name, <<a>>) \in DOMAIN d.files
    IN  [fresh EXCEPT !.attributes =
            [a \in DOMAIN fresh.attributes |->
                IF complete
                THEN [fresh.attributes[a] EXCEPT
                        !.data = from_markdown(a, d.files[FilePath(section, entity_name, <<a>>)])]
                ELSE fresh.attributes[a]]]

\* One entity of load_wiki: Character(name=entity_name), each attribute
\* read from <attr_name>.md with from_markdown when the file exists and
\* set to its default otherwise.
load_entity(d, section, entity_name) ==
    LET fresh == Character(entity_name)
    IN  [fresh EXCEPT !.attributes =
            [a \in DOMAIN fresh.attributes |->
                LET attr_file == FilePath(section, entity_name, <<a>>)
                IN  IF attr_file \in DOMAIN d.files
                    THEN [fresh.attributes[a] EXCEPT
                            !.data = from_markdown(a, d.files[attr_file])]
                    ELSE [fresh.attributes[a] EXCEPT !.data = default(a)]]]

\* Wiki.load_wiki with the entity directories listed in `order`:
\* self.sections is rebuilt from the directories.
load_wiki(w, d, order) ==
    LET loaded == {sec \in d.sections : lower(sec) = "characters"}
        keyed == [i \in DOMAIN order |->
                    [key |-> order[i].entity, ent |-> i, section |-> order[i].section]]
        of_section(sec) == SelectSeq(keyed, LAMBDA k : k.section = sec)
    IN  [w EXCEPT
            !.heap = [i \in DOMAIN order |->
                        load_entity(d, order[i].section, order[i].entity)],
            !.entities = [sec \in loaded |->
                            [i \in DOMAIN of_section(sec) |->
                                [key |-> of_section(sec)[i].key,
                                 ent |-> of_section(sec)[i].ent]]]]

\* ---------------------------------------------------------- read_chunks
\* docstore.nodes: opaque text nodes, named by their index.
nodes == [i \in 1..num_nodes |-> i - 1]

\* The nodes the for loop of read_chunks iterates over.
chunks == PySlice(nodes, SliceStart, SliceStop)

\* Mutant of raises_fatal: the exhausted retries are swallowed.
raises_fatal_never(t) == FALSE

\* if tries > max_retries: raise Exception("Error calling Gemini API")
raises_fatal(t) == t > max_retries

\* Mutant of retry_loop_guard: the bound is taken one too large.
retry_loop_guard_one_more(resp, t) == resp = None /\ t <= max_retries + 1

\* while response is None and tries <= max_retries:
retry_loop_guard(resp, t) == resp = None /\ t <= max_retries

\* A response part: a function call (name and keyword arguments), or a
\* text part, whose function_call is empty and therefore falsy.
FunctionCall(name, args) == [name |-> name, args |-> args]
TextPart == FunctionCall("", [text |-> "prose"])
has_function_call(p) == p.name # ""

\* Mutant of next_part: an exception ends the loop over the parts.
next_part_abort(i, raised, len) == IF raised THEN len + 1 ELSE i + 1

\* process_response after one part: the for loop goes on to the next part
\* whether the call returned or raised (the except clause only prints).
next_part(i, raised, len) == i + 1

\* --------------------------------------------------- the agent's output
Contents == {"o1", "o2"}

ContentCalls(tools, names, contents) ==
    {FunctionCall(t, [name |-> n, content |-> c]) :
        t \in tools, n \in names, c \in contents}

CharacterCalls(contents) ==
    {FunctionCall("add_character", [name |-> n]) : n \in CharNames}
        \cup ContentCalls({"add_to_character_personality", "add_to_character_trivia",
                           "add_to_character_appearance"}, CharNames, contents)
        \cup {FunctionCall("add_to_character_aliases", [name |-> n, alias |-> a]) :
                n \in CharNames, a \in CharNames}

SettingCalls(contents) ==
    {FunctionCall("add_setting", [name |-> n]) : n \in SettNames}
        \cup ContentCalls({"add_to_setting_description", "add_to_setting_geography",
                           "add_to_setting_history", "add_to_setting_culture"},
                          SettNames, contents)

SummaryCalls ==
    {FunctionCall("generate_chunk_summary", [summary |-> x]) : x \in Summaries}

\* Calls that call_function cannot carry out: the do_nothing tool that
\* DEFAULT_ADD_SYSTEM_MSG names but no section registers, and a registered
\* tool called with the wrong keyword.
UnknownToolCall == FunctionCall("do_nothing", <<>>)
BadArgumentsCall == FunctionCall("add_character", [content |-> "o1"])

AllParts ==
    CharacterCalls({"o1"}) \cup SettingCalls({"o1"}) \cup SummaryCalls
        \cup {UnknownToolCall, BadArgumentsCall, TextPart}

Min(a, b) == IF a < b THEN a ELSE b

\* ----------------------------------------------------------- the events
Event(op) ==
    [op |-> op, call |-> TextPart, raised |-> "", section |-> "", key |-> "",
     ent |-> 0, attr |-> "", buflen |-> 0, invoked |-> FALSE, outcome |-> NoModel,
     offered |-> <<>>, calls |-> 0]

\* ------------------------------------------------------------------ Init
\* The wiki as main constructs it: two empty sections, no summary.
EmptyWiki ==
    [entities |-> [s \in Range(SectionOrder) |-> <<>>], heap |-> <<>>,
     running_summary |-> <<>>]

\* Wiki.__post_init__ and main's sections, for an agent that emits at
\* most `calls` response parts in the run.
InitRun(n_nodes, keep, rep, calls) ==
    /\ entities = EmptyWiki.entities
    /\ heap = EmptyWiki.heap
    /\ running_summary = EmptyWiki.running_summary
    /\ use_n_prev_chunks = keep
    /\ num_nodes = n_nodes
    /\ repertoire = rep
    /\ budget = calls
    /\ pc = "next_chunk"
    /\ curr = 1
    /\ tries = 0
    /\ response = None
    /\ nparts = 0
    /\ part = 1
    /\ upos = 1
    /\ force = FALSE
    /\ last = Event("init")
    /\ attempts = 0
    /\ processed = <<>>
    /\ snap = EmptyWiki
    /\ shadow = EmptyWiki
    /\ shadow_clean = TRUE
    /\ dispatched = 0
    /\ n_raised = 0
    /\ before = EmptyWiki
    /\ chunk_snap = EmptyWiki
    /\ pass_snap = <<>>
    /\ pass_log = <<>>
    /\ summaries = <<>>
    /\ tally = [responses |-> 0, passes |-> 0, pending |-> 0]
    /\ disk = EmptyDisk

InitWiki(n_nodes, keep, rep) == InitRun(n_nodes, keep, rep, MaxCalls)

Init ==
    \E n \in 0..MaxNodes : InitWiki(n, DefaultUseNPrevChunks, AllParts)

SetWiki(w) ==
    /\ entities' = w.entities
    /\ heap' = w.heap
    /\ running_summary' = w.running_summary

\* --------------------------------------------------------------- actions
\* for curr_node in self.docstore.nodes[3:7]: take up the next node and
\* reset response and tries.
NextChunk ==
    /\ pc = "next_chunk"
    /\ curr <= Len(chunks)
    /\ pc' = "agent"
    /\ response' = None
    /\ tries' = 0
    /\ attempts' = 0
    /\ processed' = Append(processed, chunks[curr])
    /\ chunk_snap' = W
    /\ last' = Event("next_chunk")
    /\ UNCHANGED <<wiki_vars, config_vars, disk, dispatch_vars, pass_vars, budget,
                   curr, summaries, tally>>

\* The for loop is exhausted: read_chunks returns and main calls
\* update_sections(force=True).
ReadChunksReturns ==
    /\ pc = "next_chunk"
    /\ curr > Len(chunks)
    /\ pc' = "update"
    /\ force' = TRUE
    /\ upos' = 1
    /\ pass_snap' = heap
    /\ pass_log' = <<>>
    /\ last' = Event("read_chunks_returns")
    /\ UNCHANGED <<wiki_vars, config_vars, disk, loop_vars, dispatch_vars, budget,
                   summaries, tally>>

\* One pass of the retry loop in which add_model.generate_content raises.
AgentRaises ==
    /\ pc = "agent"
    /\ retry_loop_guard(response, tries)
    /\ tries' = tries + 1
    /\ attempts' = attempts + 1
    /\ last' = Event("agent_raises")
    /\ UNCHANGED <<wiki_vars, config_vars, disk, dispatch_vars, pass_vars, budget, pc,
                   curr, response, processed, chunk_snap, summaries, tally>>

\* One pass of the retry loop in which add_model.generate_content returns.
AgentReturns ==
    /\ pc = "agent"
    /\ retry_loop_guard(response, tries)
    /\ response' = "received"
    /\ attempts' = attempts + 1
    /\ last' = Event("agent_returns")
    /\ tally' = [tally EXCEPT !.responses = @ + 1]
    /\ UNCHANGED <<wiki_vars, config_vars, disk, dispatch_vars, pass_vars, budget, pc,
                   curr, tries, processed, chunk_snap, summaries>>

\* The loop has ended without a response.  if tries > max_retries: raise
\* Exception(...); otherwise `if response is not None` is false and the
\* for loop would go on to the next node.
RetriesExhausted ==
    /\ pc = "agent"
    /\ ~retry_loop_guard(response, tries)
    /\ response = None
    /\ IF raises_fatal(tries)
       THEN pc' = "fatal" /\ curr' = curr
       ELSE pc' = "next_chunk" /\ curr' = curr + 1
    /\ last' = Event("retries_exhausted")
    /\ UNCHANGED <<wiki_vars, config_vars, disk, dispatch_vars, pass_vars, budget,
                   tries, response, attempts, processed, chunk_snap, summaries,
                   tally>>

\* The loop has ended with a response: process_response(response) starts.
\* response.parts has some number of parts; what each part holds is drawn
\* when the loop over the parts reaches it (the backend's answer does not
\* depend on the wiki).  tries is dead from here on and reset.
ProcessResponseStarts ==
    /\ pc = "agent"
    /\ ~retry_loop_guard(response, tries)
    /\ ~raises_fatal(tries)
    /\ response # None
    /\ \E n \in 0..Min(MaxParts, budget) :
          /\ nparts' = n
          /\ budget' = budget - n
    /\ pc' = "dispatch"
    /\ part' = 1
    /\ tries' = 0
    /\ attempts' = 0
    /\ snap' = W
    /\ shadow' = W
    /\ shadow_clean' = TRUE
    /\ dispatched' = 0
    /\ n_raised' = 0
    /\ before' = EmptyWiki
    /\ chunk_snap' = EmptyWiki
    /\ last' = Event("process_response")
    /\ UNCHANGED <<wiki_vars, config_vars, disk, pass_vars, curr, response, processed,
                   summaries, tally>>

\* One iteration of process_response's loop over response.parts.
DispatchPart ==
    /\ pc = "dispatch"
    /\ part <= nparts
    /\ \E p \in repertoire :
          LET called == has_function_call(p)
              r == IF called THEN call_function(W, use_n_prev_chunks, p)
                   ELSE Returned(W)
              returned == called /\ r.raised = ""
              sh == IF returned THEN call_function(shadow, use_n_prev_chunks, p)
                    ELSE Returned(shadow)
          IN  /\ SetWiki(r.w)
              /\ part' = next_part(part, r.raised # "", nparts)
              /\ dispatched' = dispatched + 1
              /\ n_raised' = IF r.raised # "" THEN n_raised + 1 ELSE n_raised
              /\ shadow' = sh.w
              /\ shadow_clean' = (shadow_clean /\ sh.raised = "")
              /\ before' = W
              /\ summaries' = IF returned /\ p.name = "generate_chunk_summary"
                              THEN Append(summaries, p.args.summary)
                              ELSE summaries
              /\ last' = [Event("call_function") EXCEPT
                             !.call = p, !.raised = r.raised, !.invoked = called]
    /\ UNCHANGED <<config_vars, disk, loop_vars, pass_vars, budget, pc, nparts, snap,
                   tally>>

\* process_response returns; read_chunks calls update_sections().
UpdateSectionsStarts ==
    /\ pc = "dispatch"
    /\ part > nparts
    /\ pc' = "update"
    /\ force' = FALSE
    /\ upos' = 1
    /\ response' = None
    /\ nparts' = 0
    /\ part' = 1
    /\ snap' = EmptyWiki
    /\ shadow' = EmptyWiki
    /\ shadow_clean' = TRUE
    /\ dispatched' = 0
    /\ n_raised' = 0
    /\ before' = EmptyWiki
    /\ pass_snap' = heap
    /\ pass_log' = <<>>
    /\ last' = Event("update_sections")
    /\ tally' = [tally EXCEPT !.passes = @ + 1, !.pending = nparts - dispatched]
    /\ UNCHANGED <<wiki_vars, config_vars, disk, budget, curr, tries, attempts,
                   processed, chunk_snap, summaries>>

\* One iteration of update_sections' innermost loop: the threshold test on
\* one attribute and, when it is due, its update_data.  An exception of
\* update_data is caught nowhere and ends the run.
VisitAttribute ==
    /\ pc = "update"
    /\ upos <= Len(Visits(entities))
    /\ LET v == Visits(entities)[upos]
           a == heap[v.ent].attributes[v.attr]
           ev == [Event("visit") EXCEPT
                     !.section = v.section, !.key = v.key, !.ent = v.ent,
                     !.attr = v.attr, !.buflen = Len(a.buffer)]
       IN  IF must_update(v.attr, a.buffer, force)
           THEN \E outcome \in (IF IsListValued(v.attr) THEN {NoModel} ELSE SynthesisOutcomes) :
                  LET r == update_data(W, v.ent, v.attr, outcome)
                  IN  /\ SetWiki(r.w)
                      /\ last' = [ev EXCEPT
                            !.invoked = TRUE, !.outcome = outcome, !.raised = r.raised,
                            !.offered = update_input(v.section, v.key, v.attr, a),
                            !.calls = generate_content_calls(v.attr, outcome)]
                      /\ pass_log' = Append(pass_log,
                            [ent |-> v.ent, attr |-> v.attr, outcome |-> outcome.kind,
                             key |-> v.key,
                             calls |-> generate_content_calls(v.attr, outcome)])
                      /\ IF r.raised = ""
                         THEN pc' = pc /\ upos' = upos + 1
                         ELSE pc' = "raised" /\ upos' = upos
           ELSE /\ last' = ev
                /\ upos' = upos + 1
                /\ UNCHANGED <<wiki_vars, pc, pass_log>>
    /\ UNCHANGED <<config_vars, disk, loop_vars, dispatch_vars, budget, force,
                   pass_snap, summaries, tally>>

\* A non-forced update_sections returns: back to the for loop.
UpdateSectionsReturns ==
    /\ pc = "update"
    /\ upos > Len(Visits(entities))
    /\ ~force
    /\ pc' = "next_chunk"
    /\ curr' = curr + 1
    /\ upos' = 1
    /\ pass_snap' = <<>>
    /\ pass_log' = <<>>
    /\ last' = Event("chunk_done")
    /\ UNCHANGED <<wiki_vars, config_vars, disk, dispatch_vars, budget, tries, response,
                   attempts, processed, chunk_snap, force, summaries, tally>>

\* The forced update_sections of main returns.
ForcedUpdateReturns ==
    /\ pc = "update"
    /\ upos > Len(Visits(entities))
    /\ force
    /\ pc' = "done"
    /\ last' = Event("run_done")
    /\ UNCHANGED <<wiki_vars, config_vars, disk, loop_vars, dispatch_vars, pass_vars,
                   budget, summaries, tally>>

Next ==
    \/ NextChunk
    \/ ReadChunksReturns
    \/ AgentRaises
    \/ AgentReturns
    \/ RetriesExhausted
    \/ ProcessResponseStarts
    \/ DispatchPart
    \/ UpdateSectionsStarts
    \/ VisitAttribute
    \/ UpdateSectionsReturns
    \/ ForcedUpdateReturns

Spec == Init /\ [][Next]_vars

\* The run goes on as long as the interpreter has a next step to take.
SpecFair == Spec /\ WF_vars(Next)

\* main's wiki.save_wiki() after the forced update.
SaveWiki ==
    /\ pc = "done"
    /\ pc' = "saved"
    /\ disk' = save_wiki(W, disk)
    /\ last' = Event("save_wiki")
    /\ UNCHANGED <<wiki_vars, config_vars, loop_vars, dispatch_vars, pass_vars,
                   budget, summaries, tally>>

\* wiki.load_wiki() on the directory save_wiki wrote.
LoadWiki ==
    /\ pc = "saved"
    /\ pc' = "loaded"
    /\ \E order \in ListingOrders(LoadableDirs(disk)) :
          SetWiki(load_wiki(W, disk, order))
    /\ before' = W
    /\ last' = Event("load_wiki")
    /\ UNCHANGED <<config_vars, disk, loop_vars, pass_vars, budget, summaries,
                   nparts, part, snap, shadow, shadow_clean, dispatched, n_raised,
                   tally>>

\* Names and aliases as the agent may give them: with a space, with an
\* underscore, with a leading hyphen, with a leading space and a
\* punctuation mark.
PersistCharNames == {<<"A", " ", "B">>, <<"A", "_", "B">>}
PersistAliases == {<<"-", "x">>, <<" ", "y", "!">>}
PersistSettNames == {<<"Study">>}

PersistParts ==
    {FunctionCall("add_character", [name |-> n]) : n \in PersistCharNames}
        \cup ContentCalls({"add_to_character_personality"}, PersistCharNames, {"o1"})
        \cup {FunctionCall("add_to_character_aliases", [name |-> <<"A", " ", "B">>, alias |-> a]) :
                a \in PersistAliases}
        \cup {FunctionCall("add_setting", [name |-> n]) : n \in PersistSettNames}
        \cup ContentCalls({"add_to_setting_description"}, PersistSettNames, {"o1"})

\* A whole run of main followed by load_wiki.
InitPersist == InitWiki(MaxNodes, DefaultUseNPrevChunks, PersistParts)

NextPersist == Next \/ SaveWiki \/ LoadWiki

SpecPersist == InitPersist /\ [][NextPersist]_vars

\* A run whose configuration of use_n_prev_chunks is any value 0..MaxKeep
\* and whose agent emits summaries and setting calls.
InitKeep ==
    \E keep \in 0..MaxKeep :
        InitWiki(MaxNodes, keep, SummaryCalls \cup SettingCalls({"o1"}))

SpecKeep == InitKeep /\ [][Next]_vars

\* A run whose agent names a character's alias in what it reports about a
\* setting: one call more than MaxCalls, to create the character, register
\* the alias, create the setting and buffer the observation.
CrossParts ==
    {FunctionCall("add_character", [name |-> "Alice"]),
     FunctionCall("add_to_character_aliases", [name |-> "Alice", alias |-> "Redwitch"])}
        \cup {FunctionCall("add_setting", [name |-> n]) : n \in SettNames}
        \cup ContentCalls({"add_to_setting_culture", "add_to_setting_description"},
                          SettNames, {"Redwitch"})

InitCross == InitRun(MaxNodes, DefaultUseNPrevChunks, CrossParts, MaxCalls + 1)

SpecCross == InitCross /\ [][Next]_vars

\* ================================================================ claims
MutationTools ==
    {"add_to_character_personality", "add_to_character_trivia",
     "add_to_character_aliases", "add_to_character_appearance",
     "add_to_setting_description", "add_to_setting_geography",
     "add_to_setting_history", "add_to_setting_culture"}

SectionOfTool(fname) ==
    IF fname \in {"add_character", "add_to_character_personality",
                  "add_to_character_trivia", "add_to_character_aliases",
                  "add_to_character_appearance"}
    THEN "Characters" ELSE "Settings"

\* The step taken is process_response's dispatch of function call p.
Dispatching(p) ==
    /\ pc = "dispatch"
    /\ last'.op = "call_function"
    /\ dispatched' = dispatched + 1
    /\ last'.call = p

\* The last step was an update_data invocation by update_sections.
UpdateAttempted == last.op = "visit" /\ last.invoked

\* C1: whatever the synthesis backend does during update_data (usable
\* text, unreadable text, or an exception), the attribute's buffer is empty
\* once the update attempt has ended.
C1_BufferEmptyAfterUpdate ==
    UpdateAttempted => heap[last.ent].attributes[last.attr].buffer = <<>>

\* C2: a failing synthesis call is caught inside the update: the run is not
\* ended by it (update_sections goes on) and the attribute's data is the
\* data it had when the pass reached it.
C2_SynthesisFailureIsContained ==
    (UpdateAttempted /\ last.outcome.kind \in {"raises", "no_text"}) =>
        /\ pc = "update"
        /\ heap[last.ent].attributes[last.attr].data
             = pass_snap[last.ent].attributes[last.attr].data

\* C3 as claimed: at most 10 agent calls per chunk.
C3_AtMostTenAgentCalls ==
    /\ attempts <= 10
    /\ (pc = "fatal" => attempts = 10)

\* C3 as amended: at most max_retries + 1 = 11 agent calls per chunk (one
\* first attempt and ten retries); the run is fatal exactly when all 11
\* failed, and a response ends the retrying.
C3_AtMostElevenAgentCalls ==
    /\ attempts <= max_retries + 1
    /\ (pc = "fatal" => attempts = max_retries + 1 /\ response = None)
    /\ (pc = "agent" /\ response = None /\ attempts = max_retries + 1
            => ~retry_loop_guard(response, tries))
    /\ (pc = "agent" /\ response = None /\ attempts <= max_retries
            => retry_loop_guard(response, tries))
    /\ (pc = "agent" /\ response # None
            => ~retry_loop_guard(response, tries) /\ attempts <= max_retries + 1)

C3_Witness == pc = "fatal" /\ attempts = max_retries + 1

\* The attributes that were due when the current pass started.
DueAtPassStart ==
    {<<e, a>> \in {<<v.ent, v.attr>> : v \in Range(Visits(entities))} :
        update_every_n_insertions(a) <= Len(pass_snap[e].attributes[a].buffer)}

LoggedInPass == {<<pass_log[i].ent, pass_log[i].attr>> : i \in DOMAIN pass_log}

\* At any point of a non-forced pass: only attributes due at its start
\* have been updated, the others are as the pass found them; and when the
\* pass has run to its end every due attribute has been updated.
NonForcedPassSoFar ==
    (pc \in {"update", "raised"} /\ ~force) =>
        /\ LoggedInPass \subseteq DueAtPassStart
        /\ \A v \in Range(Visits(entities)) :
              <<v.ent, v.attr>> \notin DueAtPassStart =>
                  heap[v.ent].attributes[v.attr] = pass_snap[v.ent].attributes[v.attr]
        /\ (pc = "update" /\ upos > Len(Visits(entities))
                => LoggedInPass = DueAtPassStart)

\* C4: in a non-forced pass update_data is invoked on the visited attribute
\* iff its buffer has reached update_every_n_insertions; an attribute below
\* the threshold keeps its buffer and data through the pass.
C4_ThresholdIsTheTrigger ==
    /\ (last.op = "visit" /\ ~force) =>
          /\ last.invoked <=> last.buflen >= update_every_n_insertions(last.attr)
          /\ ~last.invoked =>
                Len(heap[last.ent].attributes[last.attr].buffer) = last.buflen
          /\ (LoggedInPass = {} =>
                last.buflen = Len(pass_snap[last.ent].attributes[last.attr].buffer))
    /\ NonForcedPassSoFar

C4_Witness ==
    /\ last.op = "visit"
    /\ ~last.invoked
    /\ ~force
    /\ last.attr = "personality"
    /\ Len(heap[last.ent].attributes[last.attr].buffer) = 2

\* The last step was add_to_character_aliases(name, alias) and it returned.
AliasAdded ==
    /\ last.op = "call_function"
    /\ last.call.name = "add_to_character_aliases"
    /\ last.raised = ""

\* C5 as claimed: whenever add_to_character_aliases(name, alias) succeeds,
\* alias and name resolve to the same Entity instance.
C5_AliasResolvesToSameEntity ==
    AliasAdded =>
        Get(entities["Characters"], last.call.args.alias)
            = Get(entities["Characters"], last.call.args.name)

\* C5 as amended: when add_to_character_aliases(name, alias) succeeds and
\* alias was not already a key of another entity, alias and name resolve to
\* the same Entity instance afterwards, and the alias just appended is in
\* the aliases buffer reached through either key.
C5_FreshAliasResolvesToSameEntity ==
    [][ \A p \in {FunctionCall("add_to_character_aliases", [name |-> n, alias |-> x]) :
                    n \in CharNames, x \in CharNames} :
          LET d == entities["Characters"]
              owner == Get(d, p.args.alias)
          IN  (/\ Dispatching(p)
               /\ Get(d, p.args.name) # 0
               /\ owner \in {0, Get(d, p.args.name)})
              => LET d2 == entities'["Characters"]
                     e1 == Get(d2, p.args.name)
                     e2 == Get(d2, p.args.alias)
                 IN  /\ e1 # 0
                     /\ e1 = e2
                     /\ e1 = Get(d, p.args.name)
                     /\ heap'[e2].attributes["aliases"].buffer
                          = Append(heap[e1].attributes["aliases"].buffer, p.args.alias)
      ]_vars

C5_Witness ==
    /\ AliasAdded
    /\ last.call.args.alias # last.call.args.name
    /\ Len(heap) = 1
    /\ Get(entities["Characters"], last.call.args.alias)
         = Get(entities["Characters"], last.call.args.name)

\* C6: a mutation tool called with a name that is no key of its section's
\* entities fails with "does not exist" and changes nothing.
C6_MissingEntityChangesNothing ==
    [][ \A p \in repertoire :
          (/\ Dispatching(p)
           /\ p.name \in MutationTools
           /\ DOMAIN p.args = Parameters(p.name)
           /\ ~Has(entities[SectionOfTool(p.name)], p.args.name))
          => /\ last'.raised = "ValueError: does not exist"
             /\ n_raised' = n_raised + 1
             /\ UNCHANGED <<entities, heap, running_summary>>
      ]_vars

C6_Witness ==
    /\ last.op = "call_function"
    /\ last.call.name \in MutationTools
    /\ last.raised = "ValueError: does not exist"
    /\ Len(heap) > 0

\* C7: when process_response has gone through a response, the loop body
\* has run for every part, in order, whether or not earlier calls failed,
\* and the wiki equals the one obtained from the wiki at the start by
\* dispatching only the calls that did not fail (none of which fails then).
C7_FailingCallsAreSkipped ==
    /\ (pc = "dispatch" => dispatched = part - 1)
    /\ (pc = "dispatch" /\ part > nparts) =>
          /\ dispatched = nparts
          /\ shadow_clean
          /\ shadow = W

C7_Witness ==
    /\ pc = "dispatch"
    /\ part > nparts
    /\ nparts = 2
    /\ n_raised = 1
    /\ last.invoked
    /\ last.raised = ""
    /\ W # snap

\* C8: for every configured non-negative use_n_prev_chunks, running_summary
\* never holds more than use_n_prev_chunks entries.
C8_SummaryNeverExceedsCapacity ==
    Len(running_summary) <= use_n_prev_chunks

\* C9: running_summary is the last min(len(s), use_n_prev_chunks) of the
\* summaries s passed to generate_chunk_summary, in their order.
C9_SummaryIsLastEntries ==
    LET k == Min(Len(summaries), use_n_prev_chunks)
    IN  running_summary = SubSeq(summaries, Len(summaries) - k + 1, Len(summaries))

\* C10: when read_chunks returns normally it has taken up every node of
\* the docstore once, in order, first to last.
C10_EveryChunkPresentedInOrder ==
    (last.op = "read_chunks_returns") => processed = nodes

\* C11: when every attempt of the agent call for a chunk has failed,
\* read_chunks raises: the run stops there (no step follows, so no call is
\* dispatched, no update pass runs and no later chunk is taken up) and
\* entities, buffers, data and running summary are those the wiki had when
\* the chunk was taken up, i.e. those left by the previous chunk.
C11_FatalErrorLeavesWikiUntouched ==
    /\ (last.op = "retries_exhausted") =>
          /\ pc = "fatal"
          /\ response = None
          /\ attempts = tries
    /\ (pc = "fatal") =>
          /\ W = chunk_snap
          /\ dispatched = 0
          /\ pass_log = <<>>
          /\ upos = 1
          /\ Len(processed) = curr
          /\ ~ENABLED Next

C11_Witness ==
    /\ pc = "fatal"
    /\ curr = 2
    /\ heap # <<>>
    /\ \E e \in DOMAIN heap :
          \E a \in DOMAIN heap[e].attributes : heap[e].attributes[a].buffer # <<>>

\* The last step was process_response's dispatch of a well-formed call of
\* a creation tool.
CreationCalled ==
    /\ last.op = "call_function"
    /\ last.call.name \in {"add_character", "add_setting"}
    /\ DOMAIN last.call.args = Parameters(last.call.name)

\* C12: add_character / add_setting called with a name that is already a
\* key of the section's entities (an entity's own name or an alias key)
\* returns and leaves the whole wiki as it was.
C12_CreationIsIdempotent ==
    (/\ CreationCalled
     /\ Has(before.entities[SectionOfTool(last.call.name)], last.call.args.name))
    => /\ last.raised = ""
       /\ W = before

C12_Witness ==
    /\ CreationCalled
    /\ Has(before.entities["Characters"], last.call.args.name)
    /\ LET e == heap[Get(entities["Characters"], last.call.args.name)]
       IN  /\ e.name # last.call.args.name
           /\ e.attributes["aliases"].data # <<>>

\* The last step was a mutation tool call that returned.
MutationReturned ==
    /\ last.op = "call_function"
    /\ last.call.name \in MutationTools
    /\ last.raised = ""

AttributeOfTool(fname) ==
    CASE fname = "add_to_character_personality" -> "personality"
      [] fname = "add_to_character_trivia" -> "trivia"
      [] fname = "add_to_character_aliases" -> "aliases"
      [] fname = "add_to_character_appearance" -> "appearance"
      [] fname = "add_to_setting_description" -> "description"
      [] fname = "add_to_setting_geography" -> "geography"
      [] fname = "add_to_setting_history" -> "history"
      [] fname = "add_to_setting_culture" -> "culture"

ItemOfCall(fc) ==
    IF fc.name = "add_to_character_aliases" THEN fc.args.alias ELSE fc.args.content

\* The entity the last call named, resolved in the wiki before the call.
TargetOfCall == Get(before.entities[SectionOfTool(last.call.name)], last.call.args.name)

\* The heap before the call with the one item appended to the buffer of
\* the named entity and attribute.
HeapWithOneMoreItem ==
    [before.heap EXCEPT
        ![TargetOfCall].attributes[AttributeOfTool(last.call.name)].buffer =
            Append(@, ItemOfCall(last.call))]

\* C13 as claimed: a successful mutation tool call lengthens the buffer of
\* (e, a) by one item and changes nothing else: no other buffer, no data,
\* not the entity keys.
C13_OnlyTheNamedBufferChanges ==
    MutationReturned =>
        /\ heap = HeapWithOneMoreItem
        /\ entities = before.entities
        /\ running_summary = before.running_summary

\* C13 as amended: the same, except that add_to_character_aliases(name,
\* alias) also makes alias a key of e when alias is not yet a key of the
\* Characters section; the keys that existed resolve as before.
C13_OnlyTheNamedBufferAndAliasKeyChange ==
    MutationReturned =>
        /\ heap = HeapWithOneMoreItem
        /\ running_summary = before.running_summary
        /\ entities["Settings"] = before.entities["Settings"]
        /\ LET d == before.entities["Characters"]
               newkey == /\ last.call.name = "add_to_character_aliases"
                         /\ ~Has(d, last.call.args.alias)
           IN  entities["Characters"] =
                   IF newkey THEN Put(d, last.call.args.alias, TargetOfCall) ELSE d

C13_Witness ==
    /\ MutationReturned
    /\ last.call.name = "add_to_character_trivia"
    /\ Len(heap) = 2
    /\ Len(entities["Characters"]) = 2

\* C14: add_to_buffer(x) makes x the last element, keeps the earlier
\* elements in their order and lengthens the buffer by one, also when x is
\* already in the buffer or in data: seen at every mutation tool call that
\* returned, each of which forwards its item to add_to_buffer.
C14_AppendsWithoutDeduplication ==
    MutationReturned =>
        LET a == AttributeOfTool(last.call.name)
            old == before.heap[TargetOfCall].attributes[a].buffer
            new == heap[TargetOfCall].attributes[a].buffer
        IN  /\ Len(new) = Len(old) + 1
            /\ new[Len(new)] = ItemOfCall(last.call)
            /\ SubSeq(new, 1, Len(old)) = old

C14_Witness ==
    /\ MutationReturned
    /\ LET a == AttributeOfTool(last.call.name)
           old == before.heap[TargetOfCall].attributes[a]
       IN  \/ ItemOfCall(last.call) \in Range(old.buffer)
           \/ a = "aliases" /\ ItemOfCall(last.call) \in Range(old.data)

NoDuplicates(lst) == \A i, j \in DOMAIN lst : lst[i] = lst[j] => i = j

\* C15: the data of an Aliases attribute never holds the same string twice.
C15_AliasesDataHasNoDuplicates ==
    \A e \in DOMAIN heap :
        "aliases" \in DOMAIN heap[e].attributes =>
            NoDuplicates(heap[e].attributes["aliases"].data)

\* The last step was an update_data of an Aliases attribute.
AliasesUpdated ==
    /\ last.op = "visit"
    /\ last.attr = "aliases"
    /\ last.invoked

\* An alias added again in a later update cycle: it was in data already.
C15_Witness ==
    /\ AliasesUpdated
    /\ LET old == pass_snap[last.ent].attributes["aliases"]
       IN  /\ old.buffer # <<>>
           /\ Range(old.buffer) \subseteq Range(old.data)

\* The items of buffer that are not in data, each once, in the order of
\* their first occurrence in buffer.
NewItems(data, buffer) ==
    LET first == {i \in DOMAIN buffer :
                    /\ buffer[i] \notin Range(data)
                    /\ \A j \in 1..(i - 1) : buffer[j] # buffer[i]}
        n == Cardinality(first)
        order == CHOOSE f \in [1..n -> first] :
                    \A i, j \in 1..n : i < j => f[i] < f[j]
    IN  [k \in 1..n |-> buffer[order[k]]]

\* C16: an update of an Aliases attribute calls no synthesis backend and
\* leaves data = the previous data followed by the new buffer items, each
\* once, in order of first occurrence.
C16_AliasesMergeWithoutModel ==
    AliasesUpdated =>
        LET old == pass_snap[last.ent].attributes["aliases"]
        IN  /\ last.outcome.kind = "no_model"
            /\ last.raised = ""
            /\ Len(old.buffer) = last.buflen
            /\ heap[last.ent].attributes["aliases"].data
                 = old.data \o NewItems(old.data, old.buffer)

C16_Witness ==
    /\ AliasesUpdated
    /\ LET old == pass_snap[last.ent].attributes["aliases"]
       IN  /\ old.data # <<>>
           /\ Len(heap[last.ent].attributes["aliases"].data) > Len(old.data)

\* C17: after save_wiki and load_wiki on the same root directory, every
\* section, every entity key of each section and every attribute's data
\* that the wiki had before is there again with the same data.
C17_SaveThenLoadRehydrates ==
    (pc = "loaded") =>
        \A sec \in DOMAIN before.entities :
            /\ sec \in DOMAIN entities
            /\ \A i \in DOMAIN before.entities[sec] :
                  LET k == before.entities[sec][i].key
                      e == before.heap[before.entities[sec][i].ent]
                  IN  /\ Has(entities[sec], k)
                      /\ \A a \in DOMAIN e.attributes :
                            heap[Get(entities[sec], k)].attributes[a].data
                                = e.attributes[a].data

\* C18: after save_wiki, for every section, entity key and attribute the
\* file sections/<section>/entities/<sanitized key>/<attribute>.md exists
\* and holds the attribute's to_markdown() text.
C18_OneFilePerAttribute ==
    (pc = "saved") =>
        \A v \in Range(Visits(entities)) :
            LET f == FilePath(v.section, sanitize_filename(v.key), <<v.attr>>)
            IN  /\ f \in DOMAIN disk.files
                /\ disk.files[f] = to_markdown(v.attr, heap[v.ent].attributes[v.attr].data)

\* C19: after load_wiki, for every entity directory it walked and every
\* attribute of the entity, the loaded attribute has its default as data
\* when <attribute>.md is absent from the directory, and the file's
\* from_markdown reading when the file is there.
C19_AbsentFileGivesDefault ==
    (pc = "loaded") =>
        \A dir \in LoadableDirs(disk) :
            /\ dir.section \in DOMAIN entities
            /\ Has(entities[dir.section], dir.entity)
            /\ \A a \in Range(CharacterAttributes) :
                  LET f == FilePath(dir.section, dir.entity, <<a>>)
                      loaded == heap[Get(entities[dir.section], dir.entity)].attributes[a]
                  IN  /\ loaded.buffer = <<>>
                      /\ loaded.data = IF f \in DOMAIN disk.files
                                       THEN from_markdown(a, disk.files[f])
                                       ELSE default(a)

\* An entity directory with aliases.md but without personality.md.
C19_Witness ==
    /\ pc = "loaded"
    /\ \E dir \in LoadableDirs(disk) :
          /\ FilePath(dir.section, dir.entity, <<"aliases">>) \in DOMAIN disk.files
          /\ FilePath(dir.section, dir.entity, <<"personality">>) \notin DOMAIN disk.files
          /\ LET e == heap[Get(entities[dir.section], dir.entity)]
             IN  /\ e.attributes["aliases"].data # <<>>
                 /\ e.attributes["personality"].data = <<>>

\* C20: for a list-valued attribute, the file save_wiki wrote from its
\* data reads back, through from_markdown, as the same list.
C20_ListRoundTrip ==
    (pc = "saved") =>
        \A v \in Range(Visits(entities)) :
            LET f == FilePath(v.section, sanitize_filename(v.key), <<v.attr>>)
                data == heap[v.ent].attributes[v.attr].data
            IN  (/\ IsListValued(v.attr)
                 /\ f \in DOMAIN disk.files
                 /\ disk.files[f] = to_markdown(v.attr, data))
                => from_markdown(v.attr, disk.files[f]) = data

\* r is d without its leading and trailing whitespace: d is r between two
\* runs of whitespace, and r neither starts nor ends with whitespace.
TrimmedOf(d, r) ==
    /\ \E i \in 0..Len(d) :
          \E j \in i..Len(d) :
              /\ r = SubSeq(d, i + 1, j)
              /\ \A k \in (1..i) \cup ((j + 1)..Len(d)) : d[k] \in Whitespace
    /\ r # <<>> => (r[1] \notin Whitespace /\ r[Len(r)] \notin Whitespace)

\* C21: for a string-valued attribute with data d, from_markdown of
\* to_markdown gives d without its leading and trailing whitespace, interior
\* characters (newlines included) kept, and a second round trip gives the
\* same again; what load_wiki reads from a file save_wiki wrote is the
\* file's text trimmed in this way.
C21_StringRoundTripTrims ==
    /\ \A e \in DOMAIN heap :
          \A a \in DOMAIN heap[e].attributes :
              ~IsListValued(a) =>
                  LET d == heap[e].attributes[a].data
                      r == from_markdown(a, to_markdown(a, d))
                  IN  /\ TrimmedOf(d, r)
                      /\ from_markdown(a, to_markdown(a, r)) = r
    /\ (pc = "loaded") =>
          \A dir \in LoadableDirs(disk) :
              \A a \in Range(CharacterAttributes) :
                  LET f == FilePath(dir.section, dir.entity, <<a>>)
                  IN  (~IsListValued(a) /\ f \in DOMAIN disk.files) =>
                          TrimmedOf(disk.files[f],
                                    heap[Get(entities[dir.section], dir.entity)].attributes[a].data)

\* A two-line text with blanks around it was saved and loaded.
C21_Witness ==
    /\ pc = "loaded"
    /\ \E dir \in LoadableDirs(disk) :
          LET f == FilePath(dir.section, dir.entity, <<"personality">>)
              loaded == heap[Get(entities[dir.section], dir.entity)].attributes["personality"].data
          IN  /\ f \in DOMAIN disk.files
              /\ disk.files[f] # loaded
              /\ "\n" \in Range(loaded)

\* The entity directories save_wiki made under a section directory.
EntityDirs(section) ==
    {f.entity : f \in {q \in DOMAIN disk.files : q.section = section}}

\* The keys of a section's entities that have an attribute with a
\* non-empty to_markdown() text: those save_wiki makes a directory for.
KeysWithText(section) ==
    {v.key : v \in {u \in Range(SectionVisits(entities, section)) :
                        to_markdown(u.attr, heap[u.ent].attributes[u.attr].data) # <<>>}}

\* name without the characters outside [a-zA-Z0-9_\- ], every remaining
\* space replaced by an underscore.
RemovedAndReplaced(name) ==
    LET kept == SelectSeq(name, LAMBDA c : c \notin UnsafeCharacters)
    IN  [i \in DOMAIN kept |-> IF kept[i] = " " THEN "_" ELSE kept[i]]

\* The same, but with the spaces before the first and after the last
\* remaining non-space character dropped instead of replaced.
RemovedTrimmedAndReplaced(name) ==
    LET kept == SelectSeq(name, LAMBDA c : c \notin UnsafeCharacters)
        solid == {i \in DOMAIN kept : kept[i] # " "}
    IN  IF solid = {} THEN <<>>
        ELSE LET lo == CHOOSE i \in solid : \A j \in solid : i <= j
                 hi == CHOOSE i \in solid : \A j \in solid : j <= i
             IN  [i \in 1..(hi - lo + 1) |->
                    IF kept[lo + i - 1] = " " THEN "_" ELSE kept[lo + i - 1]]

\* C22 as claimed: the directory save_wiki makes for an entity key is the
\* key with the characters outside letters, digits, underscore, hyphen and
\* space removed and every remaining space replaced by an underscore, and
\* holds no other character than letters, digits, underscores and hyphens.
C22_SanitizeRemovesAndReplaces ==
    (pc = "saved") =>
        \A sec \in DOMAIN entities :
            /\ EntityDirs(sec) = {RemovedAndReplaced(k) : k \in KeysWithText(sec)}
            /\ \A dir \in EntityDirs(sec) :
                  Range(dir) \cap (UnsafeCharacters \cup {" "}) = {}

\* C22 as amended: removal, then leading and trailing spaces dropped, then
\* every remaining space replaced by an underscore.
C22_SanitizeRemovesTrimsAndReplaces ==
    (pc = "saved") =>
        \A sec \in DOMAIN entities :
            /\ EntityDirs(sec) = {RemovedTrimmedAndReplaced(k) : k \in KeysWithText(sec)}
            /\ \A dir \in EntityDirs(sec) :
                  Range(dir) \cap (UnsafeCharacters \cup {" "}) = {}
            /\ \A f \in DOMAIN disk.files :
                  f.attr = RemovedTrimmedAndReplaced(f.attr)

\* A key with a leading space and a punctuation mark got its directory.
C22_Witness ==
    /\ pc = "saved"
    /\ \E k \in KeysWithText("Characters") :
          /\ k[1] = " "
          /\ "!" \in Range(k)
          /\ RemovedTrimmedAndReplaced(k) \in EntityDirs("Characters")
          /\ RemovedAndReplaced(k) \notin EntityDirs("Characters")

\* C23: during chunk processing the data of an attribute changes only in
\* the step in which update_sections invokes update_data on that attribute
\* of that entity: no agent call and no dispatched tool call (creation,
\* mutation, alias, summary; returning or raising) changes any data.
C23_DataChangesOnlyInItsUpdate ==
    [][\A e \in DOMAIN heap :
          \A a \in DOMAIN heap[e].attributes :
              heap'[e].attributes[a].data # heap[e].attributes[a].data =>
                  /\ pc = "update"
                  /\ last'.op = "visit"
                  /\ last'.invoked
                  /\ last'.ent = e
                  /\ last'.attr = a]_vars

\* A mutation tool call returned while an attribute held synthesized data.
C23_Witness ==
    /\ MutationReturned
    /\ \E e \in DOMAIN before.heap :
          \E a \in DOMAIN before.heap[e].attributes :
              /\ before.heap[e].attributes[a].data # <<>>
              /\ heap[e].attributes[a].data = before.heap[e].attributes[a].data

\* The last step was a creation tool call naming a name that was no key.
FreshCreationCalled ==
    /\ CreationCalled
    /\ ~Has(before.entities[SectionOfTool(last.call.name)], last.call.args.name)

\* C24: an entity created by add_character or add_setting is a new object
\* bound to the name, with the attributes of its type, each with empty
\* buffer and default data (empty str, empty list), whatever the earlier
\* entities hold; the earlier entities are as they were.
C24_FreshEntityHasItsOwnDefaultAttributes ==
    FreshCreationCalled =>
        LET sec == SectionOfTool(last.call.name)
            new == Len(before.heap) + 1
        IN  /\ last.raised = ""
            /\ Len(heap) = new
            /\ SubSeq(heap, 1, Len(before.heap)) = before.heap
            /\ Get(entities[sec], last.call.args.name) = new
            /\ heap[new].name = last.call.args.name
            /\ DOMAIN heap[new].attributes = Range(AttributeOrder(sec))
            /\ \A a \in DOMAIN heap[new].attributes :
                  /\ heap[new].attributes[a].buffer = <<>>
                  /\ heap[new].attributes[a].data = default(a)

\* A character is created while an earlier character holds merged data.
C24_Witness ==
    /\ FreshCreationCalled
    /\ last.call.name = "add_character"
    /\ \E e \in DOMAIN before.heap :
          /\ "aliases" \in DOMAIN heap[e].attributes
          /\ heap[e].attributes["aliases"].data # <<>>

\* C25: in every step of a run, each key of each section stays a key and
\* stays bound to the entity it was bound to, and no entity object goes
\* away or changes its name or its set of attributes.
C25_KeysAreNeverReboundNorDeleted ==
    [][/\ \A sec \in DOMAIN entities :
            \A i \in DOMAIN entities[sec] :
                /\ sec \in DOMAIN entities'
                /\ Has(entities'[sec], entities[sec][i].key)
                /\ Get(entities'[sec], entities[sec][i].key) = entities[sec][i].ent
       /\ Len(heap') >= Len(heap)
       /\ \A e \in DOMAIN heap :
            /\ heap'[e].name = heap[e].name
            /\ DOMAIN heap'[e].attributes = DOMAIN heap[e].attributes]_vars

\* add_to_character_aliases returned for an alias that was already the
\* key of another entity.
C25_Witness ==
    /\ MutationReturned
    /\ last.call.name = "add_to_character_aliases"
    /\ LET d == before.entities["Characters"]
       IN  /\ Has(d, last.call.args.alias)
           /\ Get(d, last.call.args.alias) # Get(d, last.call.args.name)
           /\ Get(entities["Characters"], last.call.args.alias) = Get(d, last.call.args.alias)

\* The last step was an update_data invocation of a non-forced pass.
UpdateAttemptedInChunk == UpdateAttempted /\ ~force

\* C26: every response received gets exactly one update pass: the pass is
\* started when no part of the response is left to dispatch, and it is over
\* when the next chunk's agent call is made; an update_data of the pass is
\* given the whole buffer as the dispatch left it, also when that is longer
\* than the threshold.
C26_OnePassAfterDispatchBeforeNextChunk ==
    /\ tally.pending = 0
    /\ (pc = "next_chunk") =>
          (tally.passes = tally.responses /\ tally.responses = Len(processed))
    /\ (pc = "agent") =>
          /\ tally.passes = Len(processed) - 1
          /\ tally.responses = tally.passes + (IF response = None THEN 0 ELSE 1)
    /\ (pc = "dispatch") =>
          (tally.passes = Len(processed) - 1 /\ tally.responses = Len(processed))
    /\ (pc \in {"update", "raised", "done"}) =>
          (tally.passes = tally.responses /\ tally.responses = Len(processed))
    /\ (pc = "fatal") =>
          (tally.passes = tally.responses /\ tally.responses = Len(processed) - 1)
    /\ UpdateAttemptedInChunk =>
          /\ last.offered = pass_snap[last.ent].attributes[last.attr].buffer
          /\ Len(last.offered) >= update_every_n_insertions(last.attr)

\* A synthesis of a non-forced pass was given more items than the threshold.
C26_Witness ==
    /\ UpdateAttemptedInChunk
    /\ ~IsListValued(last.attr)
    /\ Len(last.offered) > update_every_n_insertions(last.attr)
    /\ tally.responses = 2

\* C27: a forced pass invokes update_data on exactly the attributes whose
\* buffer is non-empty, and when the forced pass has ended every buffer of
\* every attribute is empty.
C27_ForcedPassEmptiesEveryBuffer ==
    /\ (force /\ last.op = "visit") => (last.invoked <=> last.buflen # 0)
    /\ (force /\ pc \in {"done", "raised"}) =>
          \A e \in DOMAIN heap :
              \A a \in DOMAIN heap[e].attributes :
                  heap[e].attributes[a].buffer = <<>>

\* The update_data invocations of the current pass on attribute a of entity e.
AttemptsOn(e, a) ==
    {i \in DOMAIN pass_log : pass_log[i].ent = e /\ pass_log[i].attr = a}

\* C28: an update attempt is given the whole buffer in insertion order,
\* calls the synthesis backend at most once, and either returns with the
\* buffer emptied or raises, keeps the buffer and ends the run; within a
\* pass a buffer changes only by being emptied in the one attempt on its
\* attribute.
C28_RemovedObservationsWereOfferedOnce ==
    /\ UpdateAttempted =>
          LET old == pass_snap[last.ent].attributes[last.attr].buffer
              new == heap[last.ent].attributes[last.attr].buffer
          IN  /\ last.offered = old
              /\ last.calls <= 1
              /\ (last.calls = 0) <=> IsListValued(last.attr)
              /\ IF last.raised = ""
                 THEN new = <<>>
                 ELSE new = old /\ pc = "raised" /\ ~ENABLED Next
    /\ (pc \in {"update", "raised"}) =>
          \A e \in DOMAIN heap :
              \A a \in DOMAIN heap[e].attributes :
                  /\ Cardinality(AttemptsOn(e, a)) <= 1
                  /\ heap[e].attributes[a].buffer # pass_snap[e].attributes[a].buffer =>
                        /\ heap[e].attributes[a].buffer = <<>>
                        /\ AttemptsOn(e, a) # {}

\* An unreadable response: the two buffered items were offered, in order,
\* in the one call, and are gone.
C28_Witness ==
    /\ UpdateAttempted
    /\ last.outcome.kind = "no_text"
    /\ Len(last.offered) = 2
    /\ last.calls = 1
    /\ heap[last.ent].attributes[last.attr].buffer = <<>>

\* C29: when a non-forced update pass has returned, every buffer of every
\* attribute of every entity is shorter than the attribute's threshold.
C29_BuffersBelowThresholdAfterCycle ==
    (last.op = "chunk_done") =>
        \A e \in DOMAIN heap :
            \A a \in DOMAIN heap[e].attributes :
                Len(heap[e].attributes[a].buffer) < update_every_n_insertions(a)

\* A cycle ended with one buffer emptied by its update and another left
\* with an item below its threshold.
C29_Witness ==
    /\ last.op = "chunk_done"
    /\ \E e \in DOMAIN heap :
          \E a, b \in DOMAIN heap[e].attributes :
              /\ heap[e].attributes[a].buffer # <<>>
              /\ heap[e].attributes[b].buffer = <<>>
              /\ heap[e].attributes[b].data # <<>>

\* C30: read_chunks eventually has finished its last chunk (main goes on
\* to the forced pass) or has stopped with the retry-exhaustion error.
C30_ReadChunksFinishesOrIsFatal == <>(force \/ pc = "fatal")

\* The visits of a pass in the opposite order: sections, entity keys and
\* attributes each taken from last to first.
Reversed(visits) == [i \in DOMAIN visits |-> visits[Len(visits) + 1 - i]]

\* The prompts a pass started in wiki w can send, whatever the order: one
\* for each key and synthesized attribute whose update is due.
PassPrompts(w, forced) ==
    {Prompt(v.section, v.key, v.attr, w.heap[v.ent].attributes[v.attr]) :
        v \in {u \in Range(Visits(w.entities)) :
                  /\ ~IsListValued(u.attr)
                  /\ must_update(u.attr, w.heap[u.ent].attributes[u.attr].buffer, forced)}}

\* The synthesis backends that are a function of the prompt.
Backends(prompts) == [prompts -> SynthesisOutcomes]

\* C31: an update pass started in a given wiki, with a synthesis backend
\* that is a function of its prompt, leaves the same data and buffers
\* whether sections, entities and attributes are visited in the code's
\* order or in the opposite one.
C31_PassResultIsOrderIndependent ==
    (pc = "update" /\ upos = 1) =>
        \A backend \in Backends(PassPrompts(W, force)) :
            update_sections_in(W, Reversed(Visits(entities)), force, backend)
                = update_sections_in(W, Visits(entities), force, backend)

\* C32: within one update pass no attribute of any entity gets more than
\* one update_data invocation, and that invocation makes at most one
\* backend call; a later visit of the same attribute in the pass (the
\* entity being reached again under another key) finds the buffer empty
\* and invokes nothing.
C32_OneUpdatePerAttributePerPass ==
    /\ (pc \in {"update", "raised", "done"}) =>
          \A e \in DOMAIN heap :
              \A a \in DOMAIN heap[e].attributes :
                  /\ Cardinality(AttemptsOn(e, a)) <= 1
                  /\ \A i \in AttemptsOn(e, a) : pass_log[i].calls <= 1
    /\ (pc = "update" /\ last.op = "visit" /\ ~last.invoked
            /\ AttemptsOn(last.ent, last.attr) # {}) =>
          /\ last.buflen = 0
          /\ \A i \in AttemptsOn(last.ent, last.attr) : pass_log[i].key # last.key

\* An entity is visited again under its alias key after the synthesis of
\* one of its attributes in the same pass.
C32_Witness ==
    /\ pc = "update"
    /\ last.op = "visit"
    /\ ~last.invoked
    /\ ~IsListValued(last.attr)
    /\ last.key # heap[last.ent].name
    /\ \E i \in AttemptsOn(last.ent, last.attr) : pass_log[i].calls = 1

\* x is a known alias in the Characters entity table: a key bound to an
\* entity of another name.
KnownAlias(x) ==
    /\ Has(entities["Characters"], x)
    /\ heap[Get(entities["Characters"], x)].name # x

\* C33: an update of a setting attribute looks the names of its buffer up
\* in the Characters entity table as it is at the time of the update and
\* hands on, for its data, the buffer without the items that are known
\* aliases.
C33_KnownAliasesFilteredAtUpdateTime ==
    (UpdateAttempted /\ last.section = "Settings") =>
        LET old == pass_snap[last.ent].attributes[last.attr].buffer
        IN  last.offered = SelectSeq(old, LAMBDA x : ~KnownAlias(x))

====
